---- MODULE Spec2Model ----
(***************************************************************************)
(* Model of src/generation.py: the synthetic flare-gas generator.          *)
(*                                                                         *)
(* Quantities in m3/h are fixed-point integers, 1 unit = 1/Milli m3/h.     *)
(* Timestamps are whole hours since 0001-01-01 00:00 (proleptic Gregorian  *)
(* calendar, as datetime.toordinal counts days).                           *)
(* The two seeded pseudo-random generators are deterministic streams: the  *)
(* value handed out depends only on the generator and on the number of     *)
(* values drawn since seeding.  Which stream seed 42 selects is unknown to *)
(* the model, so it is chosen in Init among NumStreams streams.            *)
(***************************************************************************)
EXTENDS Integers, Sequences, FiniteSets, TLC

\* ------------------------------------------------------------------ bounds
NumStreams == 2      \* streams the seeded generators may stand for: 1..NumStreams
LastYear == 2024     \* years 2023..LastYear, besides the century years
MaxEntropy == 1      \* an unseeded source starts in one of the states 0..MaxEntropy

\* ------------------------------------------------------------------- state
VARIABLES
    FLARE_CAUSES,      \* the module-level configuration dict
    stream,            \* which stream seed 42 selects (fixed, unknown)
    py_pos,            \* state of the random module: values drawn since seeding
    np_pos,            \* state of np.random: values drawn since seeding
    console,           \* print calls executed by the process
    files,             \* files written
    pc,                \* where the process stands
    caller,            \* who made the current call: the script (line 195) or a client
    run,               \* the call being followed: "none", the "first", or a "later" one
    year,              \* the argument of the current call
    date_range, shutdown_events, baseline_rate, contributions,   \* its locals
    i,                 \* index of the next timestamp of date_range
    data_len,          \* len(data)
    data_last,         \* data[-1:], the row appended last
    entry,             \* the process-wide state when the current call was entered
    tally,             \* counts kept over the rows of data appended so far
    first              \* the first call, followed again row by row next to a later one

vars ==
    <<FLARE_CAUSES, stream, py_pos, np_pos, console, files, pc, caller, run,
      year, date_range, shutdown_events, baseline_rate, contributions, i,
      data_len, data_last, entry, tally, first>>

\* ----------------------------------------------------- fixed-point numbers
Milli == 1000

Max2(a, b) == IF a >= b THEN a ELSE b

\* round(x, 2): nearest multiple of 0.01, an exact half to the even neighbour
Round2(x) ==
    LET q == x \div 10
        r == x % 10
    IN  IF r < 5 THEN q * 10
        ELSE IF r > 5 THEN (q + 1) * 10
        ELSE IF q % 2 = 0 THEN q * 10 ELSE (q + 1) * 10

\* np.clip(x, lo, hi)
Clip(x, lo, hi) == IF x < lo THEN lo ELSE IF x > hi THEN hi ELSE x

\* x * (pct / 100) for the multipliers 0.95, 1.02, 1.05 (x >= 0)
Scale(x, pct) == (x * pct) \div 100

\* ---------------------------------------------------------------- calendar
IsLeap(y) == (y % 4 = 0) /\ ((y % 100 # 0) \/ (y % 400 = 0))

DaysBeforeYear(y) ==
    LET p == y - 1 IN p * 365 + p \div 4 - p \div 100 + p \div 400

\* days of a common year before the first of each month
DaysBeforeMonthTable ==
    <<0, 31, 59, 90, 120, 151, 181, 212, 243, 273, 304, 334, 365>>

DaysBeforeMonth(y, m) ==
    DaysBeforeMonthTable[m] + (IF m > 2 /\ IsLeap(y) THEN 1 ELSE 0)

\* datetime(y, m, d, h, 0, 0) as hours since 0001-01-01 00:00
Datetime(y, m, d, h) ==
    (DaysBeforeYear(y) + DaysBeforeMonth(y, m) + d - 1) * 24 + h

\* timedelta(hours=h)
Timedelta(h) == h

\* freq='h': one hour between consecutive timestamps of the range
Freq == 1

\* faulty variant: the range stops short of its end point
DateRangeOpen(start, end) ==
    [start   |-> start,
     periods |-> IF end < start THEN 0 ELSE (end - start) \div Freq]

\* pd.date_range(start, end, freq='h'): start, start+1h, ... while <= end
DateRange(start, end) ==
    [start   |-> start,
     periods |-> IF end < start THEN 0 ELSE (end - start) \div Freq + 1]

DateRangeAt(dr, k) == dr.start + k * Freq

\* dt.hour
HourOf(t) == t % 24

\* the calendar year of a timestamp (datetime's ordinal -> year)
YearOf(t) ==
    LET n    == t \div 24
        n400 == n \div 146097
        r400 == n % 146097
        n100 == r400 \div 36524
        r100 == r400 % 36524
        n4   == r100 \div 1461
        r4   == r100 % 1461
        n1   == r4 \div 365
        y    == n400 * 400 + n100 * 100 + n4 * 4 + n1 + 1
    IN  IF n1 = 4 \/ n100 = 4 THEN y - 1 ELSE y

\* the month of day n (counted from 0) of year y: an estimate that is right
\* or one too high, lowered when the month starts after day n
MonthAt(y, n, estimate) ==
    IF DaysBeforeMonth(y, estimate) > n THEN estimate - 1 ELSE estimate

MonthOfDay(y, n) == MonthAt(y, n, (n + 50) \div 32)

MonthIn(t, y) == MonthOfDay(y, t \div 24 - DaysBeforeYear(y))

\* dt.month
MonthOf(t) == MonthIn(t, YearOf(t))

\* dt.strftime('%A'): 0001-01-01 is a Monday
WeekdayNames ==
    <<"Monday", "Tuesday", "Wednesday", "Thursday", "Friday", "Saturday", "Sunday">>

\* faulty variant: the day count is taken as starting at 1
DayNameOrdinal(t) == WeekdayNames[((t \div 24 + 1) % 7) + 1]

DayName(t) == WeekdayNames[((t \div 24) % 7) + 1]

\* dt.strftime('%B')
MonthNames ==
    <<"January", "February", "March", "April", "May", "June", "July",
      "August", "September", "October", "November", "December">>

MonthName(t) == MonthNames[MonthOf(t)]

\* ------------------------------------------------------------ configuration
\* declaration order of the contributions dict (lines 55-63)
Causes ==
    <<"normal_operations", "process_upset", "equipment_maintenance",
      "startup_shutdown", "emergency_relief", "compressor_trip",
      "instrument_failure">>

CauseSet == {Causes[j] : j \in 1..Len(Causes)}

\* the five causes of the injection loop, in its order (lines 92-93)
InjectedCauses ==
    <<"process_upset", "equipment_maintenance", "emergency_relief",
      "compressor_trip", "instrument_failure">>

\* FLARE_CAUSES as written in the module (rates in 1/Milli m3/h, probability in 1/Milli)
FlareCausesLiteral ==
    [normal_operations     |-> [baseline |-> 100 * Milli, std |-> 8 * Milli],
     process_upset         |-> [avg_rate |-> 50 * Milli, std |-> 15 * Milli, probability |-> 150],
     equipment_maintenance |-> [avg_rate |-> 40 * Milli, std |-> 12 * Milli, probability |-> 100],
     startup_shutdown      |-> [avg_rate |-> 200 * Milli, std |-> 50 * Milli, probability |-> 0],
     emergency_relief      |-> [avg_rate |-> 80 * Milli, std |-> 25 * Milli, probability |-> 30],
     compressor_trip       |-> [avg_rate |-> 120 * Milli, std |-> 30 * Milli, probability |-> 20],
     instrument_failure    |-> [avg_rate |-> 60 * Milli, std |-> 20 * Milli, probability |-> 20]]

\* ------------------------------------------------------- the random sources
\* One period of what the general-purpose source hands out, each value a
\* fraction of [0, 1) in 1/Milli.  The period holds the values 0 and 999, and
\* every hourly probability together with the value just below it.  Stream k
\* starts the period 3 * (k - 1) places further on.
PyTable ==
    <<999, 999, 999, 999, 999, 30, 20, 999, 999, 999, 999, 999, 999, 149,
      999, 999, 999, 999, 999, 999, 29, 19, 999, 0, 0, 0, 0, 0, 0, 99, 999,
      999, 999, 150, 100, 30, 20, 20, 999, 999, 999, 999, 19, 999, 999, 999,
      999, 999, 0, 0, 999, 999, 999, 999, 0>>

PyRaw(k, p) == PyTable[((p + 3 * (k - 1)) % Len(PyTable)) + 1]

\* random.random(): a value u of [0, 1), here u * Milli
PyRandom(k, p) == PyRaw(k, p)

\* random.randint(a, b): uniform on a..b, both included
PyRandint(k, p, a, b) == a + (PyRaw(k, p) * (b - a + 1)) \div Milli

\* One period of the standard-normal values z behind np.random.normal, in
\* 1/10000 standard deviations: small values, values that carry a draw below
\* zero or the baseline past its clamp, and values that leave a contribution
\* just above or below a multiple of 0.01.  Stream k starts the period
\* 5 * (k - 1) places further on.
NpTable ==
    <<400000, 0, 400000, 37500, 3, 400000, 37500, 1, 0, 400000, 7, 3, 4, 2,
      8, 2, 0, -160000, 1, 8336, -10000, -160000, -400000, 10000, -40000,
      -400000, -10000, -400000, -39999, 0, 8334, 10000, 20000, 0, 0, 0>>

NpZ(k, p) == NpTable[((p + 5 * (k - 1)) % Len(NpTable)) + 1]

\* np.random.normal(loc, scale) = loc + scale * z, with loc and scale in
\* 1/Milli (every scale of the program is a multiple of 0.1) and z in 1/10000
Normal(loc, scale, z) == loc + ((scale \div 100) * z) \div 100

\* ------------------------------------------------- generate_flare_data, parts
\* faulty variant: the first anchor is set late in February
ShutdownDatesLateFebruary(y) ==
    <<Datetime(y, 2, 27, 0), Datetime(y, 4, 20, 0),
      Datetime(y, 7, 10, 0), Datetime(y, 10, 5, 0)>>

\* the four anchor dates (lines 32-37)
ShutdownDates(y) ==
    <<Datetime(y, 2, 15, 0), Datetime(y, 4, 20, 0),
      Datetime(y, 7, 10, 0), Datetime(y, 10, 5, 0)>>

\* faulty variant: the window also takes the hour at which it should end
WindowHoursInclusive(shutdown_start, duration_hours) ==
    {shutdown_start + Timedelta(h) : h \in 0..duration_hours}

\* the hours appended for one window (lines 42-43).  shutdown_events is only
\* ever tested for membership (line 52), so the list is kept as the set of its
\* elements.
WindowHours(shutdown_start, duration_hours) ==
    {shutdown_start + Timedelta(h) : h \in 0..(duration_hours - 1)}

\* the scheduling loop (lines 39-43), from anchor j on; p is the state of the
\* general-purpose source
RECURSIVE ScheduleShutdowns(_, _, _, _, _)
ScheduleShutdowns(k, dates, j, p, events) ==
    IF j > Len(dates) THEN [shutdown_events |-> events, py_pos |-> p]
    ELSE LET duration_hours == PyRandint(k, p, 24, 72)
             shutdown_start == dates[j] + Timedelta(PyRandint(k, p + 1, 0, 23))
         IN  ScheduleShutdowns(k, dates, j + 1, p + 2,
                               events \cup WindowHours(shutdown_start, duration_hours))

\* dt in shutdown_events (line 52)
IsShutdown(dt, events) == dt \in events

\* the contributions dict as initialised (lines 55-63)
ZeroContributions == [c \in CauseSet |-> 0]

\* faulty variant: the dict is built once, so a pass starts from the last one's
CarriedContributions == contributions

\* the dict a pass of the loop starts from: built anew in every pass (line 55)
FreshContributions == ZeroContributions

\* faulty variant: the baseline walks without the clip of line 67
BaselineStepUnclamped(k, q, rate) == rate + Normal(0, 500, NpZ(k, q))

\* normal operations (lines 66-80): q is the state of the Gaussian source
BaselineStep(k, q, rate) ==
    Clip(rate + Normal(0, 500, NpZ(k, q)), 80 * Milli, 120 * Milli)

\* faulty variant: the night factor also takes hour 6
DiurnalThroughSix(x, hour) ==
    IF 0 <= hour /\ hour <= 6 THEN Scale(x, 95)
    ELSE IF 8 <= hour /\ hour < 16 THEN Scale(x, 102)
    ELSE x

\* lines 71-75 and 78-80: the multipliers of normal_operations
Diurnal(x, hour) ==
    IF 0 <= hour /\ hour < 6 THEN Scale(x, 95)
    ELSE IF 8 <= hour /\ hour < 16 THEN Scale(x, 102)
    ELSE x

Seasonal(x, month) == IF 6 <= month /\ month <= 8 THEN Scale(x, 105) ELSE x

NormalOperations(cfg, k, q, rate, dt) ==
    Seasonal(Diurnal(Max2(0, rate
                             + Normal(0, cfg["normal_operations"].std, NpZ(k, q))),
                     HourOf(dt)),
             MonthOf(dt))

\* faulty variant: the scheduled contribution is not clamped at 0
ShutdownRateUnclamped(cfg, k, q) ==
    Normal(cfg["startup_shutdown"].avg_rate, cfg["startup_shutdown"].std, NpZ(k, q))

\* the scheduled shutdown contribution (lines 84-88)
ShutdownRate(cfg, k, q) ==
    Max2(0, Normal(cfg["startup_shutdown"].avg_rate,
                   cfg["startup_shutdown"].std, NpZ(k, q)))

\* faulty variant: a draw equal to the probability also injects
FiresAtOrBelow(cfg, cause, u) == u <= cfg[cause].probability

\* the injection test (line 94)
Fires(cfg, cause, u) == u < cfg[cause].probability

\* faulty variant: the Gaussian value is drawn before the test of line 94
RECURSIVE InjectDrawsFirst(_, _, _, _, _, _)
InjectDrawsFirst(cfg, k, j, p, q, contribs) ==
    IF j > Len(InjectedCauses)
    THEN [py_pos |-> p, np_pos |-> q, contributions |-> contribs]
    ELSE LET cause == InjectedCauses[j]
             rate  == Normal(cfg[cause].avg_rate, cfg[cause].std, NpZ(k, q))
         IN  IF Fires(cfg, cause, PyRandom(k, p))
             THEN InjectDrawsFirst(cfg, k, j + 1, p + 1, q + 1,
                                   [contribs EXCEPT ![cause] = Max2(0, rate)])
             ELSE InjectDrawsFirst(cfg, k, j + 1, p + 1, q + 1, contribs)

\* the injection loop (lines 92-99), from cause j on
RECURSIVE Inject(_, _, _, _, _, _)
Inject(cfg, k, j, p, q, contribs) ==
    IF j > Len(InjectedCauses)
    THEN [py_pos |-> p, np_pos |-> q, contributions |-> contribs]
    ELSE LET cause == InjectedCauses[j]
         IN  IF Fires(cfg, cause, PyRandom(k, p))
             THEN LET rate == Normal(cfg[cause].avg_rate, cfg[cause].std, NpZ(k, q))
                  IN  Inject(cfg, k, j + 1, p + 1, q + 1,
                             [contribs EXCEPT ![cause] = Max2(0, rate)])
             ELSE Inject(cfg, k, j + 1, p + 1, q, contribs)

\* faulty variant: the sum leaves out the first cause
TotalFlareRateSkipFirst(contribs) ==
    LET RECURSIVE Rest(_)
        Rest(j) == IF j > Len(Causes) THEN 0 ELSE contribs[Causes[j]] + Rest(j + 1)
    IN  Rest(2)

\* sum(contributions.values()) (line 102)
RECURSIVE SumFrom(_, _)
SumFrom(contribs, j) ==
    IF j > Len(Causes) THEN 0
    ELSE contribs[Causes[j]] + SumFrom(contribs, j + 1)

TotalFlareRate(contribs) == SumFrom(contribs, 1)

\* faulty variant: the tier is derived from the rounded total
SeverityOfRounded(total_flare_rate) ==
    IF Round2(total_flare_rate) > 350 * Milli THEN "high"
    ELSE IF Round2(total_flare_rate) > 200 * Milli THEN "medium"
    ELSE "low"

\* lines 105-109
Severity(total_flare_rate) ==
    IF total_flare_rate > 350 * Milli THEN "high"
    ELSE IF total_flare_rate > 200 * Milli THEN "medium"
    ELSE "low"

\* max(contributions.items(), key=lambda x: x[1])[0] (line 112): the first
\* item, in dict order, that no later item exceeds
RECURSIVE MaxFrom(_, _, _)
MaxFrom(contribs, j, best) ==
    IF j > Len(Causes) THEN best
    ELSE IF contribs[Causes[j]] > contribs[best]
         THEN MaxFrom(contribs, j + 1, Causes[j])
         ELSE MaxFrom(contribs, j + 1, best)

\* faulty variant: a later item that equals the maximum replaces the earlier one
DominantCauseLast(contribs) ==
    LET RECURSIVE Last(_, _)
        Last(j, best) ==
            IF j > Len(Causes) THEN best
            ELSE IF contribs[Causes[j]] >= contribs[best]
                 THEN Last(j + 1, Causes[j])
                 ELSE Last(j + 1, best)
    IN  Last(2, Causes[1])

DominantCause(contribs) == MaxFrom(contribs, 2, Causes[1])

\* the row appended to data (lines 114-129)
RowOf(dt, contribs, total_flare_rate) ==
    [timestamp                         |-> dt,
     total_flare_rate_m3_per_hour      |-> Round2(total_flare_rate),
     normal_operations_m3_per_hour     |-> Round2(contribs["normal_operations"]),
     process_upset_m3_per_hour         |-> Round2(contribs["process_upset"]),
     equipment_maintenance_m3_per_hour |-> Round2(contribs["equipment_maintenance"]),
     startup_shutdown_m3_per_hour      |-> Round2(contribs["startup_shutdown"]),
     emergency_relief_m3_per_hour      |-> Round2(contribs["emergency_relief"]),
     compressor_trip_m3_per_hour       |-> Round2(contribs["compressor_trip"]),
     instrument_failure_m3_per_hour    |-> Round2(contribs["instrument_failure"]),
     dominant_cause                    |-> DominantCause(contribs),
     severity                          |-> Severity(total_flare_rate),
     day_of_week                       |-> DayName(dt),
     month                             |-> MonthName(dt),
     hour                              |-> HourOf(dt)]

\* faulty variant: the total is cut to 2 decimals before it is used
MakeRowTruncatedTotal(dt, contribs) ==
    RowOf(dt, contribs, (TotalFlareRate(contribs) \div 10) * 10)

\* lines 101-129: the total, the derived fields and the row
MakeRow(dt, contribs) == RowOf(dt, contribs, TotalFlareRate(contribs))

\* the statements before the hourly loop (lines 26-48), entered with the
\* general-purpose source in state p
Prologue(k, y, p) ==
    LET start_date == Datetime(y, 1, 1, 0)
        end_date   == Datetime(y, 12, 31, 23)
        sched      == ScheduleShutdowns(k, ShutdownDates(y), 1, p, {})
    IN  [date_range      |-> DateRange(start_date, end_date),
         shutdown_events |-> sched.shutdown_events,
         py_pos          |-> sched.py_pos,
         baseline_rate   |-> 100 * Milli]

\* what one pass of the loop body leaves behind (lines 101-129), inj being the
\* sources and the contributions after line 99
EndOfPass(dt, baseline, inj) ==
    [py_pos        |-> inj.py_pos,
     np_pos        |-> inj.np_pos,
     baseline_rate |-> baseline,
     contributions |-> inj.contributions,
     row           |-> MakeRow(dt, inj.contributions)]

\* faulty variant: the injection loop also runs in a shutdown hour
EventsAlwaysInject(cfg, k, p, q, is_shutdown, c1) ==
    IF is_shutdown
    THEN Inject(cfg, k, 1, p, q + 1,
                [c1 EXCEPT !["startup_shutdown"] = ShutdownRate(cfg, k, q)])
    ELSE Inject(cfg, k, 1, p, q, c1)

\* lines 82-99: the scheduled contribution in a shutdown hour, the injection
\* loop in any other hour; q is the state of the Gaussian source after line 68
Events(cfg, k, p, q, is_shutdown, c1) ==
    IF is_shutdown
    THEN [py_pos |-> p, np_pos |-> q + 1,
          contributions |-> [c1 EXCEPT !["startup_shutdown"] = ShutdownRate(cfg, k, q)]]
    ELSE Inject(cfg, k, 1, p, q, c1)

\* lines 65-129 with the new baseline known
PassWith(cfg, k, p, q, baseline, is_shutdown, dt) ==
    EndOfPass(dt, baseline,
              Events(cfg, k, p, q + 2, is_shutdown,
                     [FreshContributions EXCEPT !["normal_operations"] =
                         NormalOperations(cfg, k, q + 1, baseline, dt)]))

\* faulty variant: the baseline is only updated outside the shutdown windows
LoopBodyFrozenInShutdown(cfg, k, p, q, rate, events, dt) ==
    IF IsShutdown(dt, events)
    THEN PassWith(cfg, k, p, q, rate, TRUE, dt)
    ELSE PassWith(cfg, k, p, q, BaselineStep(k, q, rate), FALSE, dt)

\* one pass of the hourly loop body (lines 51-129) for timestamp dt
LoopBody(cfg, k, p, q, rate, events, dt) ==
    PassWith(cfg, k, p, q, BaselineStep(k, q, rate),
             IsShutdown(dt, events), dt)

\* np.random.normal raises ValueError("scale < 0") instead of drawing
ScaleError(scale) == scale < 0

\* the first injected cause, from j on, whose draw of line 95 raises; 0 if none
RECURSIVE RaisingCause(_, _, _, _)
RaisingCause(cfg, k, j, p) ==
    IF j > Len(InjectedCauses) THEN 0
    ELSE IF /\ Fires(cfg, InjectedCauses[j], PyRandom(k, p + j - 1))
            /\ ScaleError(cfg[InjectedCauses[j]].std)
         THEN j
         ELSE RaisingCause(cfg, k, j + 1, p)

\* a pass of the loop body ends in an exception at line 68, 84 or 95
Raises(cfg, k, p, is_shutdown) ==
    \/ ScaleError(cfg["normal_operations"].std)
    \/ is_shutdown /\ ScaleError(cfg["startup_shutdown"].std)
    \/ ~is_shutdown /\ RaisingCause(cfg, k, 1, p) # 0

\* the states of the two sources when that exception is raised: the baseline
\* step is drawn, then every draw that precedes the refused one
RaisedAt(cfg, k, p, q, is_shutdown) ==
    IF ScaleError(cfg["normal_operations"].std) THEN [py_pos |-> p, np_pos |-> q + 1]
    ELSE IF is_shutdown THEN [py_pos |-> p, np_pos |-> q + 2]
    ELSE LET j == RaisingCause(cfg, k, 1, p)
             fired == {m \in 1..(j - 1) :
                          Fires(cfg, InjectedCauses[m], PyRandom(k, p + m - 1))}
         IN  [py_pos |-> p + j, np_pos |-> q + 2 + Cardinality(fired)]

\* the counts kept over data: the current and the longest run of February rows
\* with a positive startup_shutdown column and the five injected columns at 0
\* (positive), the same for February rows of shutdown hours (scheduled), and
\* the number of rows of shutdown hours
ZeroTally ==
    [positive |-> 0, positive_best |-> 0, scheduled |-> 0, scheduled_best |-> 0,
     shutdown_rows |-> 0]

Tallied(t, row, is_shutdown) ==
    LET quiet == /\ row.process_upset_m3_per_hour = 0
                 /\ row.equipment_maintenance_m3_per_hour = 0
                 /\ row.emergency_relief_m3_per_hour = 0
                 /\ row.compressor_trip_m3_per_hour = 0
                 /\ row.instrument_failure_m3_per_hour = 0
        feb   == row.month = "February"
        pos   == IF feb /\ quiet /\ row.startup_shutdown_m3_per_hour > 0
                 THEN t.positive + 1 ELSE 0
        sch   == IF feb /\ quiet /\ is_shutdown THEN t.scheduled + 1 ELSE 0
    IN  [positive       |-> pos,
         positive_best  |-> Max2(t.positive_best, pos),
         scheduled      |-> sch,
         scheduled_best |-> Max2(t.scheduled_best, sch),
         shutdown_rows  |-> t.shutdown_rows + (IF is_shutdown THEN 1 ELSE 0)]

\* ----------------------------------------------------------------- process
\* what a client that imported the module may assign into FLARE_CAUSES before a
\* call: a probability above 1, a negative standard deviation
ClientConfigurations ==
    {[FlareCausesLiteral EXCEPT !.process_upset.probability = 1500],
     [FlareCausesLiteral EXCEPT !.normal_operations.std = -8 * Milli]}

\* the years a client may pass, and the year the script passes (line 195)
Years == {1900, 2000} \cup (2023..LastYear)
ScriptYear == 2024

\* faulty variant: np.random is left unseeded
SeedNumpyMissing(old) == old

\* random.seed(42) and np.random.seed(42) (lines 7-8): the state they leave
SeedRandom(old) == 0
SeedNumpy(old) == 0

Init ==
    /\ FLARE_CAUSES = FlareCausesLiteral
    /\ stream \in 1..NumStreams
    /\ py_pos \in 0..MaxEntropy
    /\ np_pos \in 0..MaxEntropy
    /\ console = 0
    /\ files = {}
    /\ pc = "boot"
    /\ caller = "script"
    /\ run = "none"
    /\ year = ScriptYear
    /\ date_range = DateRange(0, -1)
    /\ shutdown_events = {}
    /\ baseline_rate = 0
    /\ contributions = ZeroContributions
    /\ i = 0
    /\ data_len = 0
    /\ data_last = <<>>
    /\ entry = [py_pos |-> 0, np_pos |-> 0, console |-> 0, files |-> {},
                FLARE_CAUSES |-> FlareCausesLiteral]
    /\ tally = ZeroTally
    /\ first = [year |-> ScriptYear, entry_py |-> 0, entry_np |-> 0, py_pos |-> 0,
                np_pos |-> 0, baseline_rate |-> 0, shutdown_events |-> {},
                last |-> <<>>]

\* module execution reaches lines 7-8
Seed ==
    /\ pc = "boot"
    /\ py_pos' = SeedRandom(py_pos)
    /\ np_pos' = SeedNumpy(np_pos)
    /\ pc' = "seeded"
    /\ UNCHANGED <<FLARE_CAUSES, stream, console, files, caller, run, year,
                   date_range, shutdown_events, baseline_rate, contributions, i,
                   data_len, data_last, entry, tally, first>>

\* the script's announcement (lines 188-194)
Banner ==
    /\ pc = "seeded"
    /\ console' = console + 7
    /\ pc' = "main"
    /\ UNCHANGED <<FLARE_CAUSES, stream, py_pos, np_pos, files, caller, run,
                   year, date_range, shutdown_events, baseline_rate,
                   contributions, i, data_len, data_last, entry, tally, first>>

\* a call of generate_flare_data(y) up to the hourly loop (lines 22-48): by the
\* script (line 195), with the year it passes, or, once the module is imported,
\* by a client with any year.  A later call for the year of the first call has
\* the first call followed again next to it.
Call ==
    /\ pc \in {"main", "imported"}
    /\ run # "later"
    /\ \E y \in (IF pc = "main" THEN {ScriptYear} ELSE Years) :
          LET pro   == Prologue(stream, y, py_pos)
              again == Prologue(stream, y, first.entry_py)
          IN  /\ year' = y
              /\ date_range' = pro.date_range
              /\ shutdown_events' = pro.shutdown_events
              /\ py_pos' = pro.py_pos
              /\ baseline_rate' = pro.baseline_rate
              /\ first' = IF run = "none"
                          THEN [first EXCEPT !.year = y, !.entry_py = py_pos,
                                             !.entry_np = np_pos]
                          ELSE IF y # first.year THEN first
                          ELSE [first EXCEPT !.py_pos = again.py_pos,
                                             !.np_pos = first.entry_np,
                                             !.baseline_rate = again.baseline_rate,
                                             !.shutdown_events = again.shutdown_events,
                                             !.last = <<>>]
    /\ entry' = [py_pos |-> py_pos, np_pos |-> np_pos, console |-> console,
                 files |-> files, FLARE_CAUSES |-> FLARE_CAUSES]
    /\ caller' = IF pc = "main" THEN "script" ELSE "client"
    /\ run' = IF run = "none" THEN "first" ELSE "later"
    /\ contributions' = ZeroContributions
    /\ i' = 0
    /\ data_len' = 0
    /\ data_last' = <<>>
    /\ tally' = ZeroTally
    /\ pc' = "loop"
    /\ UNCHANGED <<FLARE_CAUSES, stream, np_pos, console, files>>

\* faulty variant: the loop body prints a line per hour
LoopFramePrinting ==
    /\ console' = console + 1
    /\ UNCHANGED <<FLARE_CAUSES, stream, files, pc, caller, run, year,
                   date_range, shutdown_events, entry>>

\* what an iteration of the hourly loop leaves alone: it prints nothing, writes
\* no file and assigns neither the configuration nor the locals set before the loop
LoopFrame ==
    UNCHANGED <<FLARE_CAUSES, stream, console, files, pc, caller, run, year,
                date_range, shutdown_events, entry>>

\* one iteration of the hourly loop (lines 50-129)
HourStep ==
    /\ pc = "loop"
    /\ i < date_range.periods
    /\ ~Raises(FLARE_CAUSES, stream, py_pos,
               IsShutdown(DateRangeAt(date_range, i), shutdown_events))
    /\ \E body \in {LoopBody(FLARE_CAUSES, stream, py_pos, np_pos, baseline_rate,
                            shutdown_events, DateRangeAt(date_range, i))} :
           /\ py_pos' = body.py_pos
           /\ np_pos' = body.np_pos
           /\ baseline_rate' = body.baseline_rate
           /\ contributions' = body.contributions
           /\ data_last' = <<body.row>>
           /\ tally' = Tallied(tally, body.row,
                               IsShutdown(DateRangeAt(date_range, i), shutdown_events))
    /\ \/ (run = "first" \/ year # first.year) /\ first' = first
       \/ /\ run = "later"
          /\ year = first.year
          /\ \E prev \in {LoopBody(FLARE_CAUSES, stream, first.py_pos, first.np_pos,
                                   first.baseline_rate, first.shutdown_events,
                                   DateRangeAt(date_range, i))} :
                first' = [first EXCEPT !.py_pos = prev.py_pos,
                                       !.np_pos = prev.np_pos,
                                       !.baseline_rate = prev.baseline_rate,
                                       !.last = <<prev.row>>]
    /\ data_len' = data_len + 1
    /\ i' = i + 1
    /\ LoopFrame

\* an iteration of the hourly loop that ends in the ValueError of a Gaussian
\* draw with a negative scale: the exception leaves the call, data is dropped
HourRaise ==
    /\ pc = "loop"
    /\ i < date_range.periods
    /\ Raises(FLARE_CAUSES, stream, py_pos,
              IsShutdown(DateRangeAt(date_range, i), shutdown_events))
    /\ \E at \in {RaisedAt(FLARE_CAUSES, stream, py_pos, np_pos,
                             IsShutdown(DateRangeAt(date_range, i), shutdown_events))} :
           /\ py_pos' = at.py_pos
           /\ np_pos' = at.np_pos
    /\ pc' = "raised"
    /\ UNCHANGED <<FLARE_CAUSES, stream, console, files, caller, run, year,
                   date_range, shutdown_events, baseline_rate, contributions, i,
                   data_len, data_last, entry, tally, first>>

\* the loop is exhausted: return pd.DataFrame(data) (line 131)
Return ==
    /\ pc = "loop"
    /\ i >= date_range.periods
    /\ pc' = IF caller = "script" THEN "returned" ELSE "imported"
    /\ UNCHANGED <<FLARE_CAUSES, stream, py_pos, np_pos, console, files, caller,
                   run, year, date_range, shutdown_events, baseline_rate,
                   contributions, i, data_len, data_last, entry, tally, first>>

\* the rest of the script (lines 198-217): the summary, the CSV file, the samples
Export ==
    /\ pc = "returned"
    /\ console' = console + 39
    /\ files' = files \cup {"lng_flare_data.csv"}
    /\ pc' = "imported"
    /\ UNCHANGED <<FLARE_CAUSES, stream, py_pos, np_pos, caller, run, year,
                   date_range, shutdown_events, baseline_rate, contributions, i,
                   data_len, data_last, entry, tally, first>>

\* a client assigns into the module-level dict between two calls
Configure ==
    /\ pc = "imported"
    /\ run = "first"
    /\ FLARE_CAUSES = FlareCausesLiteral
    /\ FLARE_CAUSES' \in ClientConfigurations
    /\ UNCHANGED <<stream, py_pos, np_pos, console, files, pc, caller, run, year,
                   date_range, shutdown_events, baseline_rate, contributions, i,
                   data_len, data_last, entry, tally, first>>

\* the module is run again in a new process: both sources start unseeded and
\* FLARE_CAUSES is the literal of lines 12-20 again
NewProcess ==
    /\ pc = "imported"
    /\ run = "first"
    /\ FLARE_CAUSES' = FlareCausesLiteral
    /\ py_pos' \in 0..MaxEntropy
    /\ np_pos' \in 0..MaxEntropy
    /\ console' = 0
    /\ pc' = "boot"
    /\ UNCHANGED <<stream, files, caller, run, year, date_range,
                   shutdown_events, baseline_rate, contributions, i, data_len,
                   data_last, entry, tally, first>>

Next ==
    \/ Seed
    \/ Banner
    \/ Call
    \/ HourStep
    \/ HourRaise
    \/ Return
    \/ Export
    \/ Configure
    \/ NewProcess

Spec == Init /\ [][Next]_vars

\* ---------------------------------------------------------------- properties
\* the row appended last
Row == data_last[1]

\* the column of a row that holds a cause's contribution (lines 117-123)
Recorded(row, cause) ==
    CASE cause = "normal_operations"     -> row.normal_operations_m3_per_hour
      [] cause = "process_upset"         -> row.process_upset_m3_per_hour
      [] cause = "equipment_maintenance" -> row.equipment_maintenance_m3_per_hour
      [] cause = "startup_shutdown"      -> row.startup_shutdown_m3_per_hour
      [] cause = "emergency_relief"      -> row.emergency_relief_m3_per_hour
      [] cause = "compressor_trip"       -> row.compressor_trip_m3_per_hour
      [] cause = "instrument_failure"    -> row.instrument_failure_m3_per_hour

RecordedSum(row) ==
    row.normal_operations_m3_per_hour + row.process_upset_m3_per_hour
    + row.equipment_maintenance_m3_per_hour + row.startup_shutdown_m3_per_hour
    + row.emergency_relief_m3_per_hour + row.compressor_trip_m3_per_hour
    + row.instrument_failure_m3_per_hour

UnroundedSum ==
    contributions["normal_operations"] + contributions["process_upset"]
    + contributions["equipment_maintenance"] + contributions["startup_shutdown"]
    + contributions["emergency_relief"] + contributions["compressor_trip"]
    + contributions["instrument_failure"]

Abs(x) == IF x < 0 THEN -x ELSE x

\* t is one of the hours of an expanded shutdown window of the current call
InWindow(t) == t \in shutdown_events

ProbabilisticCauses ==
    {"process_upset", "equipment_maintenance", "emergency_relief",
     "compressor_trip", "instrument_failure"}

\* position of a cause in declaration order
Rank(cause) == CHOOSE j \in 1..Len(Causes) : Causes[j] = cause

\* the loop of the current call is exhausted: the call is about to return
AtReturn == pc = "loop" /\ i >= date_range.periods

GregorianLeap(y) == (y % 4 = 0 /\ y % 100 # 0) \/ y % 400 = 0

\* C1: the k-th row of a call for year Y carries the timestamp k - 1 hours
\* after Y-01-01 00:00 (so the timestamps increase by exactly one hour, with
\* no gap and no duplicate), and when the call returns there are 8784 rows in
\* a leap year and 8760 otherwise, the last one at Y-12-31 23:00.
C1_Completeness ==
    /\ data_len > 0 =>
          /\ Row.timestamp = Datetime(year, 1, 1, 0) + (data_len - 1)
          /\ YearOf(Row.timestamp) = year
          /\ data_len = 1 => Row.hour = 0 /\ Row.month = "January"
    /\ (AtReturn \/ pc = "returned") =>
          /\ data_len = IF GregorianLeap(year) THEN 8784 ELSE 8760
          /\ Row.timestamp = Datetime(year, 12, 31, 23)
          /\ Row.hour = 23 /\ Row.month = "December"

C1_Witness == pc = "returned" /\ year = 2024 /\ data_len = 8784

\* C2 (as claimed): every row of a later call for the same year equals the
\* row of the first call with the same index, whether the later call is made
\* in a new process or as a successive call within the same process.
C2_AnyTwoRunsAgree ==
    (run = "later" /\ year = first.year /\ data_len > 0) => data_last = first.last

\* C2 (amended): every row of a later call that is the first call after the
\* seeding of lines 7-8 (the script's call in a new process) equals the row of
\* the first call with the same index.
C2_SeededRunsAgree ==
    (run = "later" /\ year = first.year /\ caller = "script" /\ data_len > 0) =>
        data_last = first.last

C2_Witness ==
    run = "later" /\ caller = "script" /\ pc = "returned" /\ data_len >= 8760

\* C3 (as claimed): the recorded total differs from the sum of the seven
\* recorded contributions by at most 0.01.
C3_WithinOneCent ==
    data_len > 0 =>
        Abs(Row.total_flare_rate_m3_per_hour - RecordedSum(Row)) <= 10

\* C3 (amended): the recorded total differs from the sum of the seven recorded
\* contributions by at most 0.03.
C3_WithinThreeCents ==
    data_len > 0 =>
        Abs(Row.total_flare_rate_m3_per_hour - RecordedSum(Row)) <= 30

C3_Witness ==
    /\ data_len > 0
    /\ Abs(Row.total_flare_rate_m3_per_hour - RecordedSum(Row)) = 30

\* C4 (as claimed): severity is high iff the recorded total is > 350, medium
\* iff it is > 200 and <= 350, low iff it is <= 200.
C4_SeverityOfRecordedTotal ==
    data_len > 0 =>
        LET total == Row.total_flare_rate_m3_per_hour
        IN  /\ Row.severity = "high" <=> total > 350 * Milli
            /\ Row.severity = "medium" <=> (200 * Milli < total /\ total <= 350 * Milli)
            /\ Row.severity = "low" <=> total <= 200 * Milli

\* C4 (amended): severity is high iff the sum of the seven contributions before
\* rounding is > 350, medium iff that sum is > 200 and <= 350, low iff it is
\* <= 200; the recorded total is that sum rounded to 2 decimals.
C4_SeverityOfUnroundedTotal ==
    data_len > 0 =>
        /\ Row.severity = "high" <=> UnroundedSum > 350 * Milli
        /\ Row.severity = "medium" <=>
              (200 * Milli < UnroundedSum /\ UnroundedSum <= 350 * Milli)
        /\ Row.severity = "low" <=> UnroundedSum <= 200 * Milli
        /\ Row.total_flare_rate_m3_per_hour - UnroundedSum \in -5..5
        /\ Row.total_flare_rate_m3_per_hour % 10 = 0

C4_Witness ==
    /\ data_len > 0
    /\ Row.severity = "medium"
    /\ Row.total_flare_rate_m3_per_hour = 200 * Milli

\* C5: in the row of an hour inside an expanded shutdown window the five
\* probabilistic causes are exactly 0, before and after rounding.
C5_ShutdownExclusivity ==
    (data_len > 0 /\ InWindow(Row.timestamp)) =>
        \A c \in ProbabilisticCauses : contributions[c] = 0 /\ Recorded(Row, c) = 0

C5_Witness ==
    /\ data_len > 0
    /\ InWindow(Row.timestamp)
    /\ Row.startup_shutdown_m3_per_hour > 0

\* C6: startup_shutdown is positive only in the row of an hour inside an
\* expanded shutdown window; in every other row it is exactly 0.
C6_StartupShutdownExclusivity ==
    (data_len > 0 /\ ~InWindow(Row.timestamp)) =>
        /\ contributions["startup_shutdown"] = 0
        /\ Row.startup_shutdown_m3_per_hour = 0

\* the first hour after a window in which startup_shutdown was positive
C6_Witness ==
    /\ data_len > 1
    /\ ~InWindow(Row.timestamp)
    /\ InWindow(Row.timestamp - 1)
    /\ Row.startup_shutdown_m3_per_hour = 0

\* C7: every contribution of every row is >= 0, before and after rounding.
C7_NonNegativity ==
    data_len > 0 =>
        \A c \in CauseSet : contributions[c] >= 0 /\ Recorded(Row, c) >= 0

\* a shutdown hour whose Gaussian draw fell below zero and was clamped
C7_Witness ==
    /\ data_len > 0
    /\ InWindow(Row.timestamp)
    /\ contributions["startup_shutdown"] = 0

\* C8: the baseline is 100 when the loop is entered and lies within [80, 120]
\* after the baseline update of every hour.
C8_BaselineBounds ==
    /\ (pc = "loop" /\ data_len = 0) => baseline_rate = 100 * Milli
    /\ (pc = "loop" /\ data_len > 0) =>
          (80 * Milli <= baseline_rate /\ baseline_rate <= 120 * Milli)

C8_Witness == pc = "loop" /\ data_len > 0 /\ baseline_rate = 80 * Milli

\* C9 (as claimed): dominant_cause holds the maximum of the seven recorded
\* contributions, and no cause declared before it holds the same recorded value.
C9_FirstRecordedMaximum ==
    data_len > 0 =>
        LET d == Row.dominant_cause
        IN  /\ \A c \in CauseSet : Recorded(Row, c) <= Recorded(Row, d)
            /\ \A c \in CauseSet :
                  Recorded(Row, c) = Recorded(Row, d) => Rank(d) <= Rank(c)

\* C9 (amended): dominant_cause holds the maximum of the seven recorded
\* contributions and the maximum of the seven contributions before rounding,
\* and no cause declared before it holds the same value before rounding.
C9_FirstUnroundedMaximum ==
    data_len > 0 =>
        LET d == Row.dominant_cause
        IN  /\ \A c \in CauseSet : Recorded(Row, c) <= Recorded(Row, d)
            /\ \A c \in CauseSet : contributions[c] <= contributions[d]
            /\ \A c \in CauseSet :
                  contributions[c] = contributions[d] => Rank(d) <= Rank(c)

\* two causes share a positive maximum
C9_Witness ==
    /\ data_len > 0
    /\ contributions[Row.dominant_cause] > 0
    /\ \E c \in CauseSet :
          c # Row.dominant_cause /\ contributions[c] = contributions[Row.dominant_cause]

\* C10 (as claimed): when a call is about to return, the console, the files,
\* the configuration and the states of both random sources are as on entry.
C10_NothingChanged ==
    AtReturn =>
        /\ console = entry.console
        /\ files = entry.files
        /\ FLARE_CAUSES = entry.FLARE_CAUSES
        /\ py_pos = entry.py_pos
        /\ np_pos = entry.np_pos

\* C10 (amended): throughout a call the console, the files and the
\* configuration are as on entry; the call advances both random sources: the
\* general-purpose source by the 8 window draws at least, the Gaussian source
\* by at least 2 draws per row.
C10_OnlySourcesAdvance ==
    pc = "loop" =>
        /\ console = entry.console
        /\ files = entry.files
        /\ FLARE_CAUSES = entry.FLARE_CAUSES
        /\ py_pos >= entry.py_pos + 8
        /\ np_pos >= entry.np_pos + 2 * data_len

C10_Witness == AtReturn /\ caller = "client" /\ data_len >= 8760

\* a configuration is valid when no standard deviation is negative and every
\* hourly probability lies in [0, 1]
ValidConfiguration(cfg) ==
    /\ \A c \in CauseSet : cfg[c].std >= 0
    /\ \A c \in CauseSet \ {"normal_operations"} :
          0 <= cfg[c].probability /\ cfg[c].probability <= Milli

\* C11 (as claimed): a call made with an invalid configuration is rejected
\* before the shutdown windows are drawn and before any row is produced: it
\* never stands in the hourly loop, with windows drawn or a row appended.
C11_EagerRejection ==
    (pc = "loop" /\ ~ValidConfiguration(FLARE_CAUSES)) =>
        (shutdown_events = {} /\ data_len = 0 /\ py_pos = entry.py_pos)

\* February lies behind the row appended last
PastFebruary == data_len > 0 /\ Row.month \notin {"January", "February"}

\* C12 (as claimed): whatever the draws, once February is past the table holds
\* a run of at least 24 consecutive February rows (any such run contains one of
\* 24 to 72 rows) that all have a positive startup_shutdown column and the five
\* injected columns at 0.
C12_FebruaryRunPositive ==
    PastFebruary => tally.positive_best >= 24

\* C12 (amended): once February is past, the longest run of consecutive
\* February rows of shutdown hours with the five injected columns at 0 is the
\* whole first window, of the 24 to 72 hours drawn for it; in each of its rows
\* startup_shutdown is >= 0 (a draw that is not positive is clamped to 0) and
\* the five injected columns are 0.
C12_FebruaryWindowRun ==
    /\ PastFebruary =>
          /\ tally.scheduled_best \in 24..72
          /\ tally.scheduled_best = PyRandint(stream, entry.py_pos, 24, 72)
          /\ tally.positive_best <= tally.scheduled_best
    /\ (data_len > 0 /\ Row.month = "February" /\ InWindow(Row.timestamp)) =>
          /\ tally.scheduled >= 1
          /\ contributions["startup_shutdown"] >= 0
          /\ \A c \in ProbabilisticCauses : Recorded(Row, c) = 0

\* February is past and its window held an hour whose draw was clamped to 0
C12_Witness ==
    /\ PastFebruary
    /\ tally.scheduled_best >= 24
    /\ tally.positive_best < tally.scheduled_best

\* the weekday of January 1 of year y by Gauss's rule, 0 = Monday
JanuaryFirst(y) ==
    (1 + 5 * ((y - 1) % 4) + 4 * ((y - 1) % 100) + 6 * ((y - 1) % 400) + 6) % 7

\* hours between January 1 00:00 of the year of the call and timestamp t
HoursIntoYear(t) == t - Datetime(year, 1, 1, 0)

\* C13: dominant_cause is one of the seven causes, severity one of low, medium,
\* high, hour the hour of day of the timestamp (in 0..23), day_of_week the
\* weekday reached from January 1 of the year, and month the name of the
\* month whose first day is the last one not after the timestamp.
C13_OutputDomains ==
    data_len > 0 =>
        /\ Row.dominant_cause \in CauseSet
        /\ Row.severity \in {"low", "medium", "high"}
        /\ Row.hour \in 0..23
        /\ Row.hour = HoursIntoYear(Row.timestamp) % 24
        /\ Row.day_of_week =
              WeekdayNames[((JanuaryFirst(year) + HoursIntoYear(Row.timestamp) \div 24) % 7) + 1]
        /\ \E m \in 1..12 :
              /\ Row.month = MonthNames[m]
              /\ Datetime(year, m, 1, 0) <= Row.timestamp
              /\ Row.timestamp < (IF m = 12 THEN Datetime(year + 1, 1, 1, 0)
                                            ELSE Datetime(year, m + 1, 1, 0))

\* the last hour of Thursday, February 29, 2024
C13_Witness ==
    /\ data_len = 60 * 24
    /\ year = 2024
    /\ Row.hour = 23
    /\ Row.day_of_week = "Thursday"
    /\ Row.month = "February"

\* 00:00 of the four anchor dates of the year of the call
Anchor(j) ==
    CASE j = 1 -> Datetime(year, 2, 15, 0)
      [] j = 2 -> Datetime(year, 4, 20, 0)
      [] j = 3 -> Datetime(year, 7, 10, 0)
      [] j = 4 -> Datetime(year, 10, 5, 0)

\* what the call drew for window j: the general-purpose source hands out the
\* duration and then the offset, anchor by anchor, from its state on entry
DrawnDuration(j) == PyRandint(stream, entry.py_pos + 2 * (j - 1), 24, 72)
DrawnOffset(j) == PyRandint(stream, entry.py_pos + 2 * (j - 1) + 1, 0, 23)
DrawnStart(j) == Anchor(j) + DrawnOffset(j)
DrawnTotal == DrawnDuration(1) + DrawnDuration(2) + DrawnDuration(3) + DrawnDuration(4)

\* timestamp t lies in one of the four drawn windows
InDrawnWindow(t) ==
    \E j \in 1..4 : DrawnStart(j) <= t /\ t < DrawnStart(j) + DrawnDuration(j)

\* C14: before the first row and when the loop is exhausted, the shutdown
\* hours are those of four windows, window j starting 0 to 23 hours after
\* 00:00 of anchor j and covering exactly its 24 to 72 drawn hours, and every
\* row in between is a shutdown hour exactly when it lies in one of them; a
\* window ends before the next begins even for the largest offset and
\* duration, the windows lie inside the year, the shutdown hours number the
\* sum of the four durations and so do, at the return, the rows of shutdown
\* hours.
C14_WindowExpansion ==
    pc = "loop" =>
        /\ \A j \in 1..4 : DrawnDuration(j) \in 24..72 /\ DrawnOffset(j) \in 0..23
        /\ (data_len = 0 \/ AtReturn) =>
              shutdown_events =
                UNION {DrawnStart(j)..(DrawnStart(j) + DrawnDuration(j) - 1) : j \in 1..4}
        /\ data_len > 0 => (InWindow(Row.timestamp) <=> InDrawnWindow(Row.timestamp))
        /\ \A j \in 1..3 : Anchor(j) + 23 + 72 <= Anchor(j + 1)
        /\ Datetime(year, 1, 1, 0) <= Anchor(1)
        /\ Anchor(4) + 23 + 72 - 1 <= Datetime(year, 12, 31, 23)
        /\ Cardinality(shutdown_events) = DrawnTotal
        /\ tally.shutdown_rows <= DrawnTotal
        /\ AtReturn => tally.shutdown_rows = DrawnTotal

\* a call about to return whose windows took the shortest and the longest
\* duration and the earliest and the latest start
C14_Witness ==
    /\ AtReturn
    /\ tally.shutdown_rows = DrawnTotal
    /\ \E j \in 1..4 : DrawnDuration(j) = 24
    /\ \E j \in 1..4 : DrawnDuration(j) = 72
    /\ \E j \in 1..4 : DrawnOffset(j) = 0
    /\ \E j \in 1..4 : DrawnOffset(j) = 23

\* a step that appends a row: one iteration of the hourly loop
RowAppended == pc = "loop" /\ pc' = "loop" /\ data_len' = data_len + 1

\* the diurnal and the seasonal factor, in percent, read off a row
DiurnalPercent(row) ==
    IF row.hour \in 0..5 THEN 95 ELSE IF row.hour \in 8..15 THEN 102 ELSE 100

SeasonalPercent(row) == IF row.month \in {"June", "July", "August"} THEN 105 ELSE 100

\* C15: in every iteration, of a shutdown hour or not, normal_operations is
\* max(0, baseline + noise), the baseline being the one just updated and the
\* noise the second Gaussian value of the hour, times the diurnal factor (0.95
\* for hours 0..5, 1.02 for 8..15, 1 otherwise) and then times the seasonal
\* factor (1.05 in June, July and August, 1 otherwise).
C15_Modulation ==
    [][RowAppended =>
          LET noise == Normal(0, FLARE_CAUSES["normal_operations"].std,
                              NpZ(stream, np_pos + 1))
              level == Max2(0, baseline_rate' + noise)
          IN  contributions'["normal_operations"] =
                  (((level * DiurnalPercent(Row')) \div 100)
                      * SeasonalPercent(Row')) \div 100]_vars

\* a July night hour inside a shutdown window: both factors apply
C15_Witness ==
    /\ data_len > 0
    /\ InWindow(Row.timestamp)
    /\ Row.month = "July"
    /\ Row.hour \in 0..5
    /\ contributions["startup_shutdown"] > 0
    /\ contributions["normal_operations"] > 0
    /\ contributions["normal_operations"] =
          (((baseline_rate * 95) \div 100) * 105) \div 100

\* the uniform value drawn for the j-th injected cause in the iteration that
\* starts in the current state, and whether it lies below the probability
UniformOf(j) == PyRandom(stream, py_pos + j - 1)
Below(j) == UniformOf(j) < FLARE_CAUSES[InjectedCauses[j]].probability

\* C16: in every iteration of a non-shutdown hour, each of the five causes is
\* 0 when its own uniform value, the j-th of the hour, is not strictly below
\* its probability, and otherwise max(0, .) of the next unused Gaussian value
\* drawn around its average rate, whatever the other four values are.
C16_IndependentInjection ==
    [][(RowAppended /\ ~InWindow(Row'.timestamp)) =>
          \A j \in 1..Len(InjectedCauses) :
              LET cause == InjectedCauses[j]
                  before == Cardinality({m \in 1..(j - 1) : Below(m)})
              IN  contributions'[cause] =
                      IF Below(j)
                      THEN Max2(0, Normal(FLARE_CAUSES[cause].avg_rate,
                                          FLARE_CAUSES[cause].std,
                                          NpZ(stream, np_pos + 2 + before)))
                      ELSE 0]_vars

\* a row in which at least two of the five causes are positive while another
\* one is 0
C16_Witness ==
    /\ data_len > 0
    /\ ~InWindow(Row.timestamp)
    /\ FLARE_CAUSES = FlareCausesLiteral
    /\ Cardinality({c \in ProbabilisticCauses : Recorded(Row, c) > 0}) >= 2
    /\ \E c \in ProbabilisticCauses : Recorded(Row, c) = 0

\* the hours of the year of the call
HoursOfYear == IF GregorianLeap(year) THEN 8784 ELSE 8760

\* no Gaussian draw of the call can be refused
DrawsAccepted == \A c \in CauseSet : FLARE_CAUSES[c].std >= 0

\* what C17 says of an iteration: it handles the hour i hours after January 1
\* 00:00, one hour after the row before it, and takes the baseline through
\* exactly one clamped step
SequentialStep ==
    /\ i < HoursOfYear
    /\ i' = i + 1
    /\ Row'.timestamp = Datetime(year, 1, 1, 0) + i
    /\ data_len > 0 => Row'.timestamp = Row.timestamp + 1
    /\ baseline_rate' =
          Clip(baseline_rate + Normal(0, 500, NpZ(stream, np_pos)),
               80 * Milli, 120 * Milli)

\* C17: every step taken in the loop is an iteration, which handles the next
\* hour in timestamp order and updates the baseline by one clamped step, in
\* shutdown hours too; wherever the loop stands it has appended one row per
\* iteration and, while hours are left, no draw of the next iteration can be
\* refused; the loop is left by the return, after exactly 8760 or 8784
\* iterations and with the table as the last iteration left it (a call whose
\* configuration holds a negative standard deviation is left by the exception).
C17_SequentialPass ==
    [][/\ (pc = "loop" /\ pc' = "loop") => (RowAppended /\ SequentialStep)
       /\ pc' = "loop" =>
             /\ i' = data_len'
             /\ i' <= date_range'.periods
             /\ date_range'.periods = HoursOfYear'
             /\ (i' < HoursOfYear' /\ DrawsAccepted') =>
                   ~Raises(FLARE_CAUSES', stream', py_pos',
                           IsShutdown(DateRangeAt(date_range', i'), shutdown_events'))
       /\ (pc = "loop" /\ pc' # "loop") =>
             \/ pc' = "raised" /\ ~DrawsAccepted
             \/ /\ pc' \in {"returned", "imported"}
                /\ i = HoursOfYear
                /\ data_len = HoursOfYear
                /\ UNCHANGED <<data_len, data_last>>]_vars

\* the last hour of a shutdown window, its baseline moved by the step of the hour
C17_Witness ==
    /\ pc = "loop"
    /\ data_len > 1
    /\ InWindow(Row.timestamp)
    /\ ~InWindow(Row.timestamp + 1)
    /\ baseline_rate \notin {80 * Milli, 100 * Milli, 120 * Milli}

\* a step that enters a call: the statements before the loop
CallEntered == pc \in {"main", "imported"} /\ pc' = "loop"

\* C18: the statements before the loop take 8 values from the general-purpose
\* source, for each anchor in order the duration and then the offset, and none
\* from the Gaussian source; an iteration takes 5 uniform values in a
\* non-shutdown hour and none in a shutdown hour, and from the Gaussian source,
\* in this order, the baseline step, the normal-operations noise, the
\* startup_shutdown value if the hour is a shutdown hour, and one value for
\* each of the five causes whose uniform value fell below its probability.
C18_DrawConsumption ==
    [][/\ CallEntered =>
             /\ py_pos' = py_pos + 8
             /\ np_pos' = np_pos
             /\ \A j \in 1..4 :
                   LET duration == PyRandint(stream, py_pos + 2 * (j - 1), 24, 72)
                       offset   == PyRandint(stream, py_pos + 2 * (j - 1) + 1, 0, 23)
                   IN  /\ Anchor(j)' + offset - 1 \notin shutdown_events'
                       /\ Anchor(j)' + offset \in shutdown_events'
                       /\ Anchor(j)' + offset + duration - 1 \in shutdown_events'
                       /\ Anchor(j)' + offset + duration \notin shutdown_events'
       /\ (RowAppended /\ InWindow(Row'.timestamp)) =>
             /\ py_pos' = py_pos
             /\ np_pos' = np_pos + 3
             /\ baseline_rate' =
                   Clip(baseline_rate + Normal(0, 500, NpZ(stream, np_pos)),
                        80 * Milli, 120 * Milli)
             /\ contributions'["startup_shutdown"] =
                   Max2(0, Normal(FLARE_CAUSES["startup_shutdown"].avg_rate,
                                  FLARE_CAUSES["startup_shutdown"].std,
                                  NpZ(stream, np_pos + 2)))
       /\ (RowAppended /\ ~InWindow(Row'.timestamp)) =>
             /\ py_pos' = py_pos + 5
             /\ np_pos' = np_pos + 2
                             + Cardinality({j \in 1..Len(InjectedCauses) : Below(j)})
             /\ baseline_rate' =
                   Clip(baseline_rate + Normal(0, 500, NpZ(stream, np_pos)),
                        80 * Milli, 120 * Milli)]_vars

\* behind a shutdown window, a row with an injected and a skipped cause, the
\* uniform values taken so far numbering 8 and 5 per non-shutdown row
C18_Witness ==
    /\ pc = "loop"
    /\ tally.shutdown_rows > 0
    /\ ~InWindow(Row.timestamp)
    /\ FLARE_CAUSES = FlareCausesLiteral
    /\ Row.process_upset_m3_per_hour > 0
    /\ Row.compressor_trip_m3_per_hour = 0
    /\ py_pos = entry.py_pos + 8 + 5 * (data_len - tally.shutdown_rows)
    /\ np_pos > entry.np_pos + 2 * data_len + tally.shutdown_rows

\* C19 (as claimed): the recorded total is at least each recorded contribution,
\* and when it is 0 all seven recorded contributions are 0, dominant_cause is
\* normal_operations and severity is low.
C19_ZeroTotalIsNormal ==
    data_len > 0 =>
        /\ \A c \in CauseSet : Row.total_flare_rate_m3_per_hour >= Recorded(Row, c)
        /\ Row.total_flare_rate_m3_per_hour = 0 =>
              /\ \A c \in CauseSet : Recorded(Row, c) = 0
              /\ Row.dominant_cause = "normal_operations"
              /\ Row.severity = "low"

\* C19 (amended): the recorded total is at least each recorded contribution,
\* and when it is 0 all seven recorded contributions are 0 and severity is
\* low; dominant_cause is then normal_operations if no contribution is
\* positive before rounding, and otherwise a cause whose contribution is
\* positive but at most 0.005, recorded as 0.
C19_ZeroTotalIsLow ==
    data_len > 0 =>
        /\ \A c \in CauseSet : Row.total_flare_rate_m3_per_hour >= Recorded(Row, c)
        /\ Row.total_flare_rate_m3_per_hour = 0 =>
              /\ \A c \in CauseSet : Recorded(Row, c) = 0
              /\ Row.severity = "low"
              /\ (\A c \in CauseSet : contributions[c] = 0) =>
                    Row.dominant_cause = "normal_operations"
              /\ Row.dominant_cause # "normal_operations" =>
                    /\ contributions[Row.dominant_cause] > 0
                    /\ contributions[Row.dominant_cause] <= 5

\* a row whose total is recorded as 0 and whose dominant cause is not
\* normal_operations
C19_Witness ==
    /\ data_len > 0
    /\ Row.total_flare_rate_m3_per_hour = 0
    /\ Row.dominant_cause # "normal_operations"

====
